---- MODULE Spec2Model ----
(***************************************************************************)
(* Model of M4MController/controller-web:                                  *)
(*   - scripts/sync_data.py: reconciliation of the local topology records  *)
(*     (objects, controllers, sensors) against a remote snapshot;          *)
(*   - server/database/managers.py: the sensor-data queries and the cloud  *)
(*     backup run (UserSocialTokensManager.sync_all / __sync).             *)
(* The relational store is a transactional record store: `committed` is    *)
(* what other connections see, `session` is the view of the open           *)
(* transaction.                                                            *)
(***************************************************************************)
EXTENDS Integers, Sequences, FiniteSets, TLC

\* ------------------------------------------------------------------ bounds
\* ids of the topology records of the single-collection runs: 1..MaxId
MaxId == 3
\* ids of the topology records of the three-collection runs: 1..MaxSyncId
MaxSyncId == 1
\* readings stored before the time-range and first-date queries
MaxReadings == 3
\* readings stored before the get_sensor_data queries
MaxDataRows == 2
\* the clock reads 2023-01-01T00:00:00 .. 2023-01-<MaxDay>T00:00:00
MaxDay == 3
\* readings stored before a backup run
MaxBackupRows == 1

\* ------------------------------------------------------------- value sets
\* Python None / SQL NULL as a column value
Null == "NULL"
\* Python None as a dict value is <<>>, a record r as a dict value is <<r>>
PyNone == <<>>

Ids == 1..MaxId
Names == {"A"}
\* the three entity types, in the order sync_objects reconciles them
ModelOrder == <<"Object", "Controller", "Sensor">>
Models == {"Object", "Controller", "Sensor"}
\* the mapped columns of a topology record
Columns == {"id", "name"}
NoRows == [m \in Models |-> {}]
NoLists == [m \in Models |-> <<>>]

VARIABLES
    \* ---- scripts/sync_data.py
    committed,        \* [Models -> set of rows]: the committed local store
    session,          \* [Models -> set of rows]: the open transaction's view
    new_records,      \* [Models -> Seq(row)]: objects, controllers, sensors
    actual,           \* [Models -> Seq(row)]: actual_objects, ... (get_all)
    new_records_map,  \* the dict of _sync_record, in insertion order
    model_idx,        \* which _sync_record call of sync_objects is running
    i,                \* position of the running for loop
    pc,               \* position in sync_objects
    ops,              \* the session operations emitted so far
    \* ---- server/database/managers.py: SensorDataManager
    readings,         \* Seq(row): the sensor_data table, in order of id
    clock_log,        \* Seq(datetime): what datetime.now() gave save_new, by id
    call,             \* the last query: its function, arguments and result
    \* ---- server/database/managers.py: UserSocialTokensManager
    user_info,        \* the user's UserInfo row: <<>> (none) or <<row>>
    user_tokens,      \* the UserSocialTokens row handed to sync_all
    backup,           \* the running sync_all: its position and locals
    store_calls,      \* the calls made to the cloud destination, in order
    \* ---- server/resources/utils.py, server/routing.py: one request
    request,          \* the running call of provide_db_session's f
    session_calls,    \* the calls made on self.db_session, in order
    committed_tokens, \* the committed UserSocialTokens row: <<>> or <<row>>
    session_tokens    \* the same row as the open transaction sees it

syncVars == <<committed, session, new_records, actual, new_records_map,
              model_idx, i, pc, ops>>
dataVars == <<readings, clock_log, call>>
backupVars == <<user_info, user_tokens, backup, store_calls>>
reqVars == <<request, session_calls, committed_tokens, session_tokens>>
vars == <<committed, session, new_records, actual, new_records_map,
          model_idx, i, pc, ops, readings, clock_log, call,
          user_info, user_tokens, backup, store_calls,
          request, session_calls, committed_tokens, session_tokens>>

\* no call of a wrapped handler is running
RequestIdle ==
    [handler |-> "none", pc |-> "idle",
     body |-> [json |-> FALSE, errors |-> FALSE, data |-> <<>>], request_obj |-> <<>>,
     result |-> <<>>, sync_all |-> "", thrown |-> "", raised |-> ""]

\* no sync_all is running
BackupIdle ==
    [pc |-> "idle", key |-> Null, controllers |-> <<>>, ci |-> 0,
     sensors |-> <<>>, si |-> 0, first_date |-> <<>>]

\* ----------------------------------------------------------- dict (Python)
\* a dict is the sequence of its entries [key, val] in insertion order
DictHas(d, k) == \E j \in 1..Len(d) : d[j].key = k

DictGet(d, k) == d[CHOOSE j \in 1..Len(d) : d[j].key = k].val

DictSet(d, k, v) ==
    IF DictHas(d, k)
    THEN [j \in 1..Len(d) |-> IF d[j].key = k THEN [key |-> k, val |-> v] ELSE d[j]]
    ELSE Append(d, [key |-> k, val |-> v])

\* {record.id: record for record in new_records}
RECURSIVE DictOfRecords(_)
DictOfRecords(records) ==
    IF records = <<>> THEN <<>>
    ELSE LET n == Len(records)
         IN  DictSet(DictOfRecords(SubSeq(records, 1, n - 1)),
                     records[n].id, <<records[n]>>)

\* ------------------------------------------------------------ record store
\* session.query(Model).all(): the rows, here in primary-key order
RECURSIVE get_all(_)
get_all(rows) ==
    IF rows = {} THEN <<>>
    ELSE LET r == CHOOSE x \in rows : \A y \in rows : x.id <= y.id
         IN  <<r>> \o get_all(rows \ {r})

\* a mutant of _record_to_dict: unset (None) columns are left out
RecordToDictSkippingNone(obj) ==
    [c \in {k \in Columns : k = "id" \/ obj[k] # Null} |-> obj[c]]

\* {c.key: getattr(obj, c.key) for c in inspect(obj).mapper.column_attrs}
_record_to_dict(obj) == [c \in Columns |-> obj[c]]

\* query.filter_by(id=id_).update(values): the named columns are overwritten
QueryUpdate(rows, id_, values) ==
    { IF r.id = id_
      THEN [c \in DOMAIN r |-> IF c \in DOMAIN values THEN values[c] ELSE r[c]]
      ELSE r : r \in rows }

\* session.delete(db_record)
SessionDelete(rows, db_record) == rows \ {db_record}

\* session.add(new_record) breaks the primary key when the id is stored
AddConflicts(rows, new_record) == \E r \in rows : r.id = new_record.id

\* a mutant of line 45: the id is not marked as consumed
LeaveUnconsumed(d, id_) == d

\* new_records_map[id] = None
MarkConsumed(d, id_) == DictSet(d, id_, PyNone)

\* a mutant of line 48: the test never passes
ToInsertNever(v) == FALSE

\* if new_record is not None
ToInsert(v) == v # PyNone

Op(kind, m, id_) == [op |-> kind, model |-> m, id |-> id_]

\* ------------------------------------------------------- sync_objects steps
CurrentModel == ModelOrder[model_idx]

\* actual_objects = object_manager.get_all(), then line 37 of _sync_record
GetAll ==
    /\ UNCHANGED <<dataVars, backupVars, reqVars>>
    /\ pc = "get_all"
    /\ actual' = [actual EXCEPT ![CurrentModel] = get_all(session[CurrentModel])]
    /\ new_records_map' = DictOfRecords(new_records[CurrentModel])
    /\ i' = 1
    /\ pc' = "loop_db"
    /\ UNCHANGED <<committed, session, new_records, model_idx, ops>>

\* one iteration of `for db_record in db_records`
SyncDbRecord ==
    /\ UNCHANGED <<dataVars, backupVars, reqVars>>
    /\ pc = "loop_db"
    /\ i <= Len(actual[CurrentModel])
    /\ LET m == CurrentModel
           db_record == actual[m][i]
           id_ == db_record.id
       IN  /\ IF DictHas(new_records_map, id_)
              THEN /\ session' = [session EXCEPT ![m] =
                          QueryUpdate(@, id_,
                              _record_to_dict(DictGet(new_records_map, id_)[1]))]
                   /\ ops' = Append(ops, Op("update", m, id_))
              ELSE /\ session' = [session EXCEPT ![m] = SessionDelete(@, db_record)]
                   /\ ops' = Append(ops, Op("delete", m, id_))
           /\ new_records_map' = MarkConsumed(new_records_map, id_)
    /\ i' = i + 1
    /\ UNCHANGED <<committed, new_records, actual, model_idx, pc>>

\* the first loop is exhausted
EndDbLoop ==
    /\ UNCHANGED <<dataVars, backupVars, reqVars>>
    /\ pc = "loop_db"
    /\ i > Len(actual[CurrentModel])
    /\ pc' = "loop_new"
    /\ i' = 1
    /\ UNCHANGED <<committed, session, new_records, actual, new_records_map,
                   model_idx, ops>>

\* one iteration of `for new_record in new_records_map.values()`
AddNewRecord ==
    /\ UNCHANGED <<dataVars, backupVars, reqVars>>
    /\ pc = "loop_new"
    /\ i <= Len(new_records_map)
    /\ LET m == CurrentModel
           v == new_records_map[i].val
       IN  IF ToInsert(v)
           THEN /\ ops' = Append(ops, Op("insert", m, v[1].id))
                /\ IF AddConflicts(session[m], v[1])
                   THEN \* IntegrityError: the run dies before the commit
                        /\ pc' = "aborted"
                        /\ session' = committed
                        /\ i' = 0
                   ELSE /\ session' = [session EXCEPT ![m] = @ \cup {v[1]}]
                        /\ pc' = pc
                        /\ i' = i + 1
           ELSE /\ i' = i + 1
                /\ UNCHANGED <<session, ops, pc>>
    /\ UNCHANGED <<committed, new_records, actual, new_records_map, model_idx>>

\* a mutant of sync_objects: a commit after every _sync_record call
EndSyncRecordCommitting ==
    /\ UNCHANGED <<dataVars, backupVars, reqVars>>
    /\ pc = "loop_new"
    /\ i > Len(new_records_map)
    /\ committed' = session
    /\ IF model_idx < Len(ModelOrder)
       THEN /\ model_idx' = model_idx + 1
            /\ pc' = "get_all"
       ELSE /\ model_idx' = model_idx
            /\ pc' = "commit"
    /\ i' = 0
    /\ UNCHANGED <<session, new_records, actual, new_records_map, ops>>

\* _sync_record returns: the next call of sync_objects, or its commit
EndSyncRecord ==
    /\ UNCHANGED <<dataVars, backupVars, reqVars>>
    /\ pc = "loop_new"
    /\ i > Len(new_records_map)
    /\ IF model_idx < Len(ModelOrder)
       THEN /\ model_idx' = model_idx + 1
            /\ pc' = "get_all"
       ELSE /\ model_idx' = model_idx
            /\ pc' = "commit"
    /\ i' = 0
    /\ UNCHANGED <<committed, session, new_records, actual, new_records_map, ops>>

\* session.commit()
Commit ==
    /\ UNCHANGED <<dataVars, backupVars, reqVars>>
    /\ pc = "commit"
    /\ committed' = session
    /\ pc' = "done"
    /\ UNCHANGED <<session, new_records, actual, new_records_map, model_idx, i, ops>>

\* a query, an update, a delete, an insert or the commit raises: the script
\* ends with the exception, its transaction is never committed and its
\* locals are gone
Fail ==
    /\ UNCHANGED <<dataVars, backupVars, reqVars>>
    /\ pc \in {"get_all", "loop_db", "loop_new", "commit"}
    /\ pc' = "aborted"
    /\ session' = committed
    /\ actual' = NoLists
    /\ new_records_map' = <<>>
    /\ model_idx' = 1
    /\ i' = 0
    /\ UNCHANGED <<committed, new_records, ops>>

SyncNext ==
    \/ GetAll
    \/ SyncDbRecord
    \/ EndDbLoop
    \/ AddNewRecord
    \/ EndSyncRecord
    \/ Commit
    \/ Fail

\* ------------------------------------------------- timestamps (text, datetime)
\* a datetime is <<year, month, day, hour, minute, second>>; a text is the
\* sequence of its tokens: "2023-01-02T00:00:00" is
\* <<"2023", "-", "01", "-", "02", "T", "00", ":", "00", ":", "00">>
TwoDigits == <<"00", "01", "02", "03", "04", "05", "06", "07", "08", "09", "10", "11", "12", "13", "14", "15", "16", "17", "18", "19", "20", "21", "22", "23", "24", "25", "26", "27", "28", "29", "30", "31", "32", "33", "34", "35", "36", "37", "38", "39", "40", "41", "42", "43", "44", "45", "46", "47", "48", "49", "50", "51", "52", "53", "54", "55", "56", "57", "58", "59">>
OneDigit == <<"0", "1", "2", "3", "4", "5", "6", "7", "8", "9">>
Years == <<"2022", "2023", "2024">>

Pad2(n) == TwoDigits[n + 1]
Pad4(y) == Years[y - 2021]

\* the number a %m, %d, %H, %M or %S token stands for (-1: not a number)
Num2(tok) ==
    IF \E n \in 1..Len(TwoDigits) : TwoDigits[n] = tok
    THEN (CHOOSE n \in 1..Len(TwoDigits) : TwoDigits[n] = tok) - 1
    ELSE IF \E n \in 1..Len(OneDigit) : OneDigit[n] = tok
         THEN (CHOOSE n \in 1..Len(OneDigit) : OneDigit[n] = tok) - 1
         ELSE -1

\* the number a %Y token stands for (-1: not a number)
Num4(tok) ==
    IF \E n \in 1..Len(Years) : Years[n] = tok
    THEN (CHOOSE n \in 1..Len(Years) : Years[n] = tok) + 2021
    ELSE -1

DaysInMonth(y, m) ==
    IF m = 2 THEN (IF y % 4 = 0 THEN 29 ELSE 28)
    ELSE IF m \in {4, 6, 9, 11} THEN 30 ELSE 31

\* datetime.strftime("%Y-%m-%dT%H:%M:%S")
strftime(dt) ==
    << Pad4(dt[1]), "-", Pad2(dt[2]), "-", Pad2(dt[3]), "T",
       Pad2(dt[4]), ":", Pad2(dt[5]), ":", Pad2(dt[6]) >>

\* datetime.strptime(text, '%Y-%m-%dT%H:%M:%S'): <<datetime>>, or <<>> for a
\* ValueError
strptime(text) ==
    IF /\ Len(text) = 11
       /\ text[2] = "-" /\ text[4] = "-" /\ text[6] = "T"
       /\ text[8] = ":" /\ text[10] = ":"
       /\ Num4(text[1]) >= 1
       /\ Num2(text[3]) \in 1..12
       /\ Num2(text[5]) \in 1..DaysInMonth(Num4(text[1]), Num2(text[3]))
       /\ Num2(text[7]) \in 0..23
       /\ Num2(text[9]) \in 0..59
       /\ Num2(text[11]) \in 0..59
    THEN << << Num4(text[1]), Num2(text[3]), Num2(text[5]),
               Num2(text[7]), Num2(text[9]), Num2(text[11]) >> >>
    ELSE <<>>

\* data[time_field].astext.cast(DateTime), of a text save_new wrote
CastDateTime(text) == strptime(text)[1]

\* a < b on datetimes
DtLess(a, b) ==
    \E k \in 1..6 : a[k] < b[k] /\ \A j \in 1..(k - 1) : a[j] = b[j]

DtLeq(a, b) == a = b \/ DtLess(a, b)

\* ------------------------------------------------------ SensorDataManager
\* the sensor ids
SensorIds == {1, 2}
\* what datetime.now() may return: the wall clock is not monotonic
DateTimes == { <<2023, 1, d, 0, 0, 0>> : d \in 1..MaxDay }
\* the value of a reading is a JSON object, here a function of its keys
SpeedValue == [k \in {"speed"} |-> 10]
Values == { SpeedValue, [k \in {"timestamp"} |-> 7] }

time_field == "timestamp"

\* SensorData(data={time_field: now.strftime(...), 'value': data},
\*            sensor_id=sensor_id), with the next id of the table
NewSensorData(rows, sensor_id, now, data) ==
    [ id |-> Len(rows) + 1,
      sensor_id |-> sensor_id,
      data |-> [timestamp |-> strftime(now), value |-> data] ]

\* a mutant of get_sensor_data_in_time_range: the upper bound is exclusive
InTimeRangeUpperExclusive(rows, sensor_id, start, end) ==
    LET Keep(r) == /\ r.sensor_id = sensor_id
                   /\ DtLeq(start, CastDateTime(r.data[time_field]))
                   /\ DtLess(CastDateTime(r.data[time_field]), end)
    IN  SelectSeq(rows, Keep)

\* get_sensor_data_in_time_range(sensor_id, DateTimeRange(start, end)): the
\* rows the filter keeps, in order of id
get_sensor_data_in_time_range(rows, sensor_id, start, end) ==
    LET Keep(r) == /\ r.sensor_id = sensor_id
                   /\ DtLeq(start, CastDateTime(r.data[time_field]))
                   /\ DtLeq(CastDateTime(r.data[time_field]), end)
    IN  SelectSeq(rows, Keep)

\* get_first_sensor_data_date(sensor_id): <<datetime>>, or <<>> for None
get_first_sensor_data_date(rows, sensor_id) ==
    LET OfSensor(r) == r.sensor_id = sensor_id
        data == SelectSeq(rows, OfSensor)      \* .order_by(SensorData.id.asc())
    IN  IF Len(data) > 0
        THEN << CastDateTime(data[1].data[time_field]) >>    \* .limit(1)
        ELSE PyNone

\* a mutant of lines 109-113: the ValueError is not caught
FromFilterRaising(time_from) ==
    IF time_from = PyNone THEN [raised |-> FALSE, bound |-> PyNone]
    ELSE [raised |-> strptime(time_from[1]) = <<>>, bound |-> strptime(time_from[1])]

\* lines 108-113: the lower bound a `from` argument gives (<<>>: none). A
\* text that does not parse is reported and gives none.
FromFilter(time_from) ==
    IF time_from = PyNone THEN [raised |-> FALSE, bound |-> PyNone]
    ELSE [raised |-> FALSE, bound |-> strptime(time_from[1])]

\* get_sensor_data(sensor_id, time_from, field): [raised, rows]
get_sensor_data(rows, sensor_id, time_from, field) ==
    LET from == FromFilter(time_from)
        InQuery(r) ==
            /\ r.sensor_id = sensor_id
            /\ from.bound # PyNone =>
                   DtLess(from.bound[1], CastDateTime(r.data[time_field]))
        key == IF field = <<"time_stamp">> THEN time_field ELSE field[1]
        HasField(r) == InQuery(r) /\ key \in DOMAIN r.data.value
        Project(r) == [r EXCEPT !.data.value = [k \in {key} |-> @[key]]]
    IN  IF from.raised THEN [raised |-> TRUE, rows |-> <<>>]
        ELSE IF field # PyNone
             THEN LET result == SelectSeq(rows, HasField)
                  IN  [raised |-> FALSE,
                       rows |-> [j \in 1..Len(result) |-> Project(result[j])]]
             ELSE [raised |-> FALSE, rows |-> SelectSeq(rows, InQuery)]

NoCall == [fn |-> "none", sensor_id |-> 0, args |-> <<>>, result |-> <<>>]

DataIdle ==
    /\ readings = <<>>
    /\ clock_log = <<>>
    /\ call = NoCall

\* no request is being served
NoRequest ==
    /\ request = RequestIdle
    /\ session_calls = <<>>
    /\ committed_tokens = <<>>
    /\ session_tokens = <<>>

\* no user, no backup run
NoBackup ==
    /\ user_info = <<>>
    /\ user_tokens = [yandex_disk |-> Null]
    /\ backup = BackupIdle
    /\ store_calls = <<>>

\* save_new(sensor_id, data), at a clock value `now`
SaveNew(max, values) ==
    /\ UNCHANGED <<syncVars, backupVars, reqVars>>
    /\ call = NoCall
    /\ backup = BackupIdle
    /\ Len(readings) < max
    /\ \E sensor_id \in SensorIds, now \in DateTimes, data \in values :
          /\ readings' = Append(readings, NewSensorData(readings, sensor_id, now, data))
          /\ clock_log' = Append(clock_log, now)
    /\ call' = NoCall

FirstSensorDataDate ==
    /\ UNCHANGED <<syncVars, backupVars, reqVars>>
    /\ call = NoCall
    /\ \E sensor_id \in SensorIds :
          call' = [fn |-> "get_first_sensor_data_date", sensor_id |-> sensor_id,
                   args |-> <<>>,
                   result |-> get_first_sensor_data_date(readings, sensor_id)]
    /\ UNCHANGED <<readings, clock_log>>

SensorDataInTimeRange ==
    /\ UNCHANGED <<syncVars, backupVars, reqVars>>
    /\ call = NoCall
    /\ \E sensor_id \in SensorIds, start \in DateTimes, end \in DateTimes :
          call' = [fn |-> "get_sensor_data_in_time_range", sensor_id |-> sensor_id,
                   args |-> <<start, end>>,
                   result |-> get_sensor_data_in_time_range(readings, sensor_id,
                                                            start, end)]
    /\ UNCHANGED <<readings, clock_log>>

\* the `from` arguments of a request: none, texts in the format, and texts
\* that are not
WellFormedFrom == { strftime(dt) : dt \in DateTimes }
MalformedFrom ==
    { <<>>,
      <<"yesterday">>,
      <<"2023", "-", "01", "-", "02">>,
      <<"2023", "-", "01", "-", "02", " ", "00", ":", "00", ":", "00">>,
      <<"2023", "-", "13", "-", "01", "T", "00", ":", "00", ":", "00">>,
      <<"2023", "-", "02", "-", "30", "T", "00", ":", "00", ":", "00">>,
      <<"2023", "/", "01", "/", "02", "T", "00", ":", "00", ":", "00">> }
FromArgs == {PyNone} \cup { <<t>> : t \in WellFormedFrom \cup MalformedFrom }
FieldArgs == {PyNone, <<"speed">>, <<"time_stamp">>, <<"rpm">>}

SensorData ==
    /\ UNCHANGED <<syncVars, backupVars, reqVars>>
    /\ call = NoCall
    /\ \E sensor_id \in SensorIds, time_from \in FromArgs, field \in FieldArgs :
          call' = [fn |-> "get_sensor_data", sensor_id |-> sensor_id,
                   args |-> <<time_from, field>>,
                   result |-> get_sensor_data(readings, sensor_id, time_from, field)]
    /\ UNCHANGED <<readings, clock_log>>

\* the result is handed to the caller
Return ==
    /\ UNCHANGED <<syncVars, backupVars, reqVars>>
    /\ call # NoCall
    /\ call' = NoCall
    /\ UNCHANGED <<readings, clock_log>>

ReadingsNext ==
    \/ SaveNew(MaxReadings, {SpeedValue})
    \/ FirstSensorDataDate
    \/ SensorDataInTimeRange
    \/ Return

DataNext ==
    \/ SaveNew(MaxDataRows, Values)
    \/ SensorData
    \/ Return

\* the readings of a sensor, by id, and the clock value each was written at
RowsOf(sensor_id) == { j \in 1..Len(readings) : readings[j].sensor_id = sensor_id }

\* ------------------------------------------------ UserSocialTokensManager
ControllerIds == {1, 2}
LastDateTime == <<2023, 1, MaxDay, 0, 0, 0>>

\* Python's truth value of a column value: None and "" are false
Truthy(v) == v # Null /\ v # ""

StoreCall(fn, id_, first_date, read) ==
    [fn |-> fn, id |-> id_, first_date |-> first_date, read |-> read]

Ended(outcome) == [BackupIdle EXCEPT !.pc = outcome]

\* sync_all(user_tokens), lines 212-217, up to the first statement of __sync
SyncAllBegin ==
    /\ UNCHANGED <<syncVars, dataVars, reqVars, user_info, user_tokens>>
    /\ backup.pc = "idle"
    /\ IF user_info = <<>>
       THEN \* .first() is None, and `key, = None` raises a TypeError
            /\ backup' = Ended("raised")
            /\ store_calls' = store_calls
       ELSE LET key == user_info[1].encrypt_key
            IN  IF ~Truthy(key)
                THEN /\ backup' = Ended("returned")
                     /\ store_calls' = store_calls
                ELSE IF Truthy(user_tokens.yandex_disk)
                     THEN /\ store_calls' = Append(store_calls,
                                 StoreCall("YaDiskStore", 0, <<>>, <<>>))
                          /\ backup' = [BackupIdle EXCEPT
                                 !.pc = "controller",
                                 !.key = key,
                                 !.controllers = get_all(session["Controller"]),
                                 !.ci = 1]
                     ELSE /\ backup' = Ended("returned")
                          /\ store_calls' = store_calls

\* lines 223-227: store.prepare_for_sync_controller(c) returns or raises
PrepareController ==
    /\ UNCHANGED <<syncVars, dataVars, reqVars, user_info, user_tokens>>
    /\ backup.pc = "controller"
    /\ backup.ci <= Len(backup.controllers)
    /\ LET controller == backup.controllers[backup.ci]
       IN  /\ store_calls' = Append(store_calls,
                  StoreCall("prepare_for_sync_controller", controller.id, <<>>, <<>>))
           /\ \/ backup' = [backup EXCEPT
                     !.pc = "sensor",
                     !.sensors = get_all({ r \in session["Sensor"] :
                                              r.controller_id = controller.id }),
                     !.si = 1]
              \/ backup' = Ended("raised")

\* the loop over the controllers is exhausted: __sync and sync_all return
EndControllers ==
    /\ UNCHANGED <<syncVars, dataVars, reqVars, user_info, user_tokens, store_calls>>
    /\ backup.pc = "controller"
    /\ backup.ci > Len(backup.controllers)
    /\ backup' = Ended("returned")

\* lines 230-233: first_date, then store.prepare_for_sync_sensor(s) returns
\* or raises
PrepareSensor ==
    /\ UNCHANGED <<syncVars, dataVars, reqVars, user_info, user_tokens>>
    /\ backup.pc = "sensor"
    /\ backup.si <= Len(backup.sensors)
    /\ LET sensor == backup.sensors[backup.si]
           first_date == get_first_sensor_data_date(readings, sensor.id)
       IN  /\ store_calls' = Append(store_calls,
                  StoreCall("prepare_for_sync_sensor", sensor.id, <<>>, <<>>))
           /\ \/ backup' = [backup EXCEPT !.pc = "sync", !.first_date = first_date]
              \/ backup' = Ended("raised")

\* what the destination reads through get_data: here the one window from
\* first_date to the end of the clock
Exported(sensor_id, first_date) ==
    IF first_date = PyNone THEN <<>>
    ELSE get_sensor_data_in_time_range(readings, sensor_id, first_date[1], LastDateTime)

\* a mutant of lines 235-241: the exported readings are deleted
StoreSyncDeletingExported ==
    /\ UNCHANGED <<syncVars, clock_log, call, reqVars, user_info, user_tokens>>
    /\ backup.pc = "sync"
    /\ LET sensor == backup.sensors[backup.si]
           read == Exported(sensor.id, backup.first_date)
           Kept(r) == \A j \in 1..Len(read) : read[j] # r
       IN  /\ store_calls' = Append(store_calls,
                  StoreCall("sync", sensor.id, backup.first_date,
                            [j \in 1..Len(read) |-> read[j].id]))
           /\ readings' = SelectSeq(readings, Kept)
           /\ \/ backup' = [backup EXCEPT !.pc = "sensor", !.si = @ + 1,
                                          !.first_date = <<>>]
              \/ backup' = Ended("raised")

\* lines 235-241: store.sync(...) returns or raises
StoreSync ==
    /\ UNCHANGED <<syncVars, dataVars, reqVars, user_info, user_tokens>>
    /\ backup.pc = "sync"
    /\ LET sensor == backup.sensors[backup.si]
           read == Exported(sensor.id, backup.first_date)
       IN  /\ store_calls' = Append(store_calls,
                  StoreCall("sync", sensor.id, backup.first_date,
                            [j \in 1..Len(read) |-> read[j].id]))
           /\ \/ backup' = [backup EXCEPT !.pc = "sensor", !.si = @ + 1,
                                          !.first_date = <<>>]
              \/ backup' = Ended("raised")

\* the loop over the sensors is exhausted: the next controller
EndSensors ==
    /\ UNCHANGED <<syncVars, dataVars, reqVars, user_info, user_tokens, store_calls>>
    /\ backup.pc = "sensor"
    /\ backup.si > Len(backup.sensors)
    /\ backup' = [backup EXCEPT !.pc = "controller", !.ci = @ + 1,
                                !.sensors = <<>>, !.si = 0]

\* the caller has the outcome of sync_all
SyncAllEnd ==
    /\ UNCHANGED <<syncVars, dataVars, reqVars, user_info, user_tokens>>
    /\ backup.pc \in {"returned", "raised"}
    /\ backup' = BackupIdle
    /\ store_calls' = <<>>

BackupNext ==
    \/ SaveNew(MaxBackupRows, {SpeedValue})
    \/ SyncAllBegin
    \/ PrepareController
    \/ EndControllers
    \/ PrepareSensor
    \/ StoreSync
    \/ EndSensors
    \/ SyncAllEnd

\* ------------------------------------- provide_db_session, UserTokens
\* the bodies of a PATCH request: no JSON, JSON the schema rejects, or the
\* tokens the schema loads
RequestObjs == [yandex_disk : {Null, "new"}]
Bodies ==
    { [json |-> FALSE, errors |-> FALSE, data |-> <<>>],
      [json |-> TRUE, errors |-> TRUE, data |-> <<>>] }
        \cup { [json |-> TRUE, errors |-> FALSE, data |-> << d >>] : d \in RequestObjs }

\* the exception leaves the try block of f, line 21 or line 22
Raise(exception) == [request EXCEPT !.pc = "except", !.thrown = exception]

\* line 19: self.db_session() opens the session of this request
DbSession ==
    /\ UNCHANGED <<syncVars, dataVars, backupVars, committed_tokens>>
    /\ request.pc = "call"
    /\ session_calls' = Append(session_calls, "db_session")
    /\ session_tokens' = committed_tokens
    /\ request' = [request EXCEPT !.pc = "func"]

\* get_by_user_id(user_id): .one() gives the row or raises NoResultFound
get_by_user_id(tokens) ==
    IF tokens = <<>> THEN [raised |-> TRUE, row |-> <<>>]
    ELSE [raised |-> FALSE, row |-> tokens]

\* update(user_id, data): the UPDATE runs in the open transaction
update(tokens, data) ==
    [j \in 1..Len(tokens) |->
        [c \in DOMAIN tokens[j] |-> IF c \in DOMAIN data THEN data[c] ELSE tokens[j][c]]]

\* line 21 with func = UserTokens.get: the row of the user is the result
UserTokensGet ==
    /\ UNCHANGED <<syncVars, dataVars, backupVars>>
    /\ UNCHANGED <<session_calls, committed_tokens, session_tokens>>
    /\ request.pc = "func"
    /\ request.handler = "UserTokens.get"
    /\ LET got == get_by_user_id(session_tokens)
       IN  request' = IF got.raised THEN Raise("NoResultFound")
                      ELSE [request EXCEPT !.pc = "commit", !.result = << got.row >>]

\* line 21 with func = UserTokens.patch, first schematic_request: the body is
\* loaded into request_obj, or the request is refused
SchematicRequest ==
    /\ UNCHANGED <<syncVars, dataVars, backupVars>>
    /\ UNCHANGED <<session_calls, committed_tokens, session_tokens>>
    /\ request.pc = "func"
    /\ request.handler = "UserTokens.patch"
    /\ request' = IF ~request.body.json THEN Raise("UnsupportedMediaTypeError")
                  ELSE IF request.body.errors THEN Raise("ValidationFailedError")
                  ELSE [request EXCEPT !.pc = "update", !.request_obj = request.body.data]

\* a mutant of patch: the update is committed as soon as it is made
UpdateCommitting ==
    /\ UNCHANGED <<syncVars, dataVars, backupVars, session_calls>>
    /\ request.pc = "update"
    /\ session_tokens' = update(session_tokens, request.request_obj[1])
    /\ committed_tokens' = session_tokens'
    /\ request' = [request EXCEPT !.pc = "get_by_user_id"]

\* patch: user_social_tokens_manager.update(user_id, request_obj)
Update ==
    /\ UNCHANGED <<syncVars, dataVars, backupVars, session_calls, committed_tokens>>
    /\ request.pc = "update"
    /\ session_tokens' = update(session_tokens, request.request_obj[1])
    /\ request' = [request EXCEPT !.pc = "get_by_user_id"]

\* patch: the argument of sync_all, get_by_user_id(user_id)
GetByUserId ==
    /\ UNCHANGED <<syncVars, dataVars, user_info, backup, store_calls>>
    /\ UNCHANGED <<session_calls, committed_tokens, session_tokens>>
    /\ request.pc = "get_by_user_id"
    /\ LET got == get_by_user_id(session_tokens)
       IN  IF got.raised
           THEN /\ request' = Raise("NoResultFound")
                /\ user_tokens' = user_tokens
           ELSE /\ request' = [request EXCEPT !.pc = "sync_all"]
                /\ user_tokens' = got.row[1]

\* patch: sync_all(...) is entered
SyncAll ==
    /\ request.pc = "sync_all"
    /\ SyncAllBegin

\* patch: sync_all has returned, and patch returns None, or it has raised
SyncAllOutcome ==
    /\ UNCHANGED <<syncVars, dataVars, user_info, user_tokens, store_calls>>
    /\ UNCHANGED <<session_calls, committed_tokens, session_tokens>>
    /\ request.pc = "sync_all"
    /\ backup.pc \in {"returned", "raised"}
    /\ backup' = BackupIdle
    /\ request' = IF backup.pc = "raised"
                  THEN [Raise("SyncError") EXCEPT !.sync_all = "raised"]
                  ELSE [request EXCEPT !.pc = "commit", !.result = << PyNone >>,
                                       !.sync_all = "returned"]

\* line 22: self.db_session.commit() makes the transaction durable, or raises
DbCommit ==
    /\ UNCHANGED <<syncVars, dataVars, backupVars, session_tokens>>
    /\ request.pc = "commit"
    /\ session_calls' = Append(session_calls, "commit")
    /\ \/ /\ committed_tokens' = session_tokens
          /\ request' = [request EXCEPT !.pc = "finally"]
       \/ /\ committed_tokens' = committed_tokens
          /\ request' = Raise("CommitError")

\* a mutant of lines 23-25: the exception is re-raised with no rollback
ExceptWithoutRollback ==
    /\ UNCHANGED <<syncVars, dataVars, backupVars, committed_tokens>>
    /\ UNCHANGED <<session_calls, session_tokens>>
    /\ request.pc = "except"
    /\ request' = [request EXCEPT !.pc = "finally", !.raised = request.thrown]

\* lines 23-25: except Exception as e: rollback(), then raise e
Except ==
    /\ UNCHANGED <<syncVars, dataVars, backupVars, committed_tokens>>
    /\ request.pc = "except"
    /\ session_calls' = Append(session_calls, "rollback")
    /\ session_tokens' = committed_tokens
    /\ request' = [request EXCEPT !.pc = "finally", !.raised = request.thrown]

\* lines 26-28: finally remove(), then the result or the exception reaches
\* the caller
Finally ==
    /\ UNCHANGED <<syncVars, dataVars, backupVars, committed_tokens>>
    /\ request.pc = "finally"
    /\ session_calls' = Append(session_calls, "remove")
    /\ session_tokens' = <<>>
    /\ request' = [request EXCEPT
           !.pc = IF request.raised # "" THEN "raised" ELSE "returned"]

RequestNext ==
    \/ DbSession
    \/ UserTokensGet
    \/ SchematicRequest
    \/ Update
    \/ GetByUserId
    \/ SyncAll
    \/ PrepareController
    \/ EndControllers
    \/ PrepareSensor
    \/ StoreSync
    \/ EndSensors
    \/ SyncAllOutcome
    \/ DbCommit
    \/ Except
    \/ Finally

\* ------------------------------------------------------------------ inputs
Reverse(s) == [j \in 1..Len(s) |-> s[Len(s) + 1 - j]]

UniqueIds(rows) == \A r1, r2 \in rows : r1.id = r2.id => r1 = r2

\* the collections of rows with ids in `ids`, unique, and names in `names`
Stores(ids, names) ==
    { rows \in SUBSET [id : ids, name : names] : UniqueIds(rows) }

\* the lists of such rows, in ascending or in descending order of id
Lists(ids, names) ==
    { get_all(rows) : rows \in Stores(ids, names) }
        \cup { Reverse(get_all(rows)) : rows \in Stores(ids, names) }

\* the scenario of the reconciler: local [{1,A},{2,B}], desired [{2,B2},{3,C}]
ScenarioLocal == { [id |-> 1, name |-> "A"], [id |-> 2, name |-> "B"] }
ScenarioDesired == << [id |-> 2, name |-> "B2"], [id |-> 3, name |-> "C"] >>

SyncStart ==
    /\ session = committed
    /\ actual = NoLists
    /\ new_records_map = <<>>
    /\ model_idx = 1
    /\ i = 0
    /\ pc = "get_all"
    /\ ops = <<>>

\* one collection (the sensors) is reconciled, the other two are empty
InitRecord ==
    /\ \/ /\ committed \in { [NoRows EXCEPT !["Sensor"] = rows] :
                                rows \in Stores(Ids, Names \cup {Null}) }
          /\ new_records \in { [NoLists EXCEPT !["Sensor"] = l] :
                                l \in Lists(Ids, Names \cup {Null}) }
       \/ /\ committed = [NoRows EXCEPT !["Sensor"] = ScenarioLocal]
          /\ new_records = [NoLists EXCEPT !["Sensor"] = ScenarioDesired]
    /\ SyncStart
    /\ DataIdle
    /\ NoBackup
    /\ NoRequest

\* the three collections are reconciled: stored names "A", snapshot names "B"
InitSync ==
    /\ committed \in [Models -> Stores(1..MaxSyncId, {"A"})]
    /\ new_records \in [Models -> { get_all(rows) : rows \in Stores(1..MaxSyncId, {"B"}) }]
    /\ SyncStart
    /\ DataIdle
    /\ NoBackup
    /\ NoRequest

SpecRecord == InitRecord /\ [][SyncNext]_vars
SpecSync == InitSync /\ [][SyncNext]_vars

\* an empty sensor_data table; no reconciliation runs
InitData ==
    /\ DataIdle
    /\ NoBackup
    /\ NoRequest
    /\ committed = NoRows
    /\ new_records = NoLists
    /\ SyncStart

\* a user with or without a UserInfo row, key and token, and a topology of
\* controllers and sensors
InitBackup ==
    /\ DataIdle
    /\ new_records = NoLists
    /\ \E cs \in SUBSET ControllerIds :
       \E owner \in [SensorIds -> ControllerIds \cup {0}] :
          committed = [NoRows EXCEPT
              !["Controller"] = { [id |-> c, name |-> "A", mac |-> "m"] : c \in cs },
              !["Sensor"] = { [id |-> x, name |-> "A", controller_id |-> owner[x]] :
                                 x \in { y \in SensorIds : owner[y] # 0 } }]
    /\ SyncStart
    /\ user_info \in {<<>>} \cup { << [encrypt_key |-> k] >> : k \in {Null, "", "secret"} }
    /\ user_tokens \in [yandex_disk : {Null, "token"}]
    /\ backup = BackupIdle
    /\ store_calls = <<>>
    /\ NoRequest

\* one request for UserTokens.get or UserTokens.patch, by a user with or
\* without a tokens row, in front of the topologies of InitBackup
InitRequest ==
    /\ DataIdle
    /\ new_records = NoLists
    /\ \E cs \in SUBSET ControllerIds :
       \E owner \in [SensorIds -> ControllerIds \cup {0}] :
          committed = [NoRows EXCEPT
              !["Controller"] = { [id |-> c, name |-> "A", mac |-> "m"] : c \in cs },
              !["Sensor"] = { [id |-> x, name |-> "A", controller_id |-> owner[x]] :
                                 x \in { y \in SensorIds : owner[y] # 0 } }]
    /\ SyncStart
    /\ user_info \in {<<>>} \cup { << [encrypt_key |-> k] >> : k \in {Null, "", "secret"} }
    /\ user_tokens = [yandex_disk |-> Null]
    /\ backup = BackupIdle
    /\ store_calls = <<>>
    /\ committed_tokens \in {<<>>} \cup { << t >> : t \in [yandex_disk : {Null, "token"}] }
    /\ session_tokens = <<>>
    /\ session_calls = <<>>
    /\ \/ request = [RequestIdle EXCEPT !.handler = "UserTokens.get", !.pc = "call"]
       \/ \E body \in Bodies :
             request = [RequestIdle EXCEPT !.handler = "UserTokens.patch",
                                           !.pc = "call", !.body = body]

SpecReadings == InitData /\ [][ReadingsNext]_vars
SpecBackup == InitBackup /\ [][BackupNext]_vars
SpecData == InitData /\ [][DataNext]_vars
SpecRequest == InitRequest /\ [][RequestNext]_vars

\* the desired collection of model m, as a set of rows
Desired(m) == { new_records[m][j] : j \in 1..Len(new_records[m]) }
Local(m) == { actual[m][j] : j \in 1..Len(actual[m]) }
OpsOf(kind, m) == { j \in 1..Len(ops) : ops[j].op = kind /\ ops[j].model = m }

\* ------------------------------------------------------------------ claims
\* C1: after _sync_record(L, D) and the commit, the local store holds exactly
\* the records of D: the same ids and, for every id, the same value in every
\* column, the unset ones included.
C1_StoreEqualsDesired ==
    pc = "done" =>
        \A m \in Models : committed[m] = Desired(m) /\ UniqueIds(committed[m])

\* C1's scenario: local [{1,A},{2,B}] against desired [{2,B2},{3,C}] has
\* emitted delete 1, update 2, insert 3 and stored the desired records.
C1_Witness ==
    /\ pc = "done"
    /\ Local("Sensor") = ScenarioLocal
    /\ ops = << Op("delete", "Sensor", 1), Op("update", "Sensor", 2),
                Op("insert", "Sensor", 3) >>
    /\ committed["Sensor"] = { [id |-> 2, name |-> "B2"], [id |-> 3, name |-> "C"] }

\* C2: the committed store changes only at the one commit that ends
\* sync_objects, and then to the fully reconciled state of all three
\* collections; a run that fails earlier leaves it as it was.
C2_AllOrNothing ==
    [][committed' # committed =>
          /\ pc' = "done"
          /\ \A m \in Models : committed'[m] = Desired(m)]_vars

\* C2: a run failed after operations of two collections were emitted, and
\* the committed store is not the reconciled one.
C2_Witness ==
    /\ pc = "aborted"
    /\ \E j, k \in 1..Len(ops) : ops[j].model # ops[k].model
    /\ \E m \in Models : committed[m] # Desired(m)

\* C3 as claimed: reconciling a collection that already equals the desired
\* one emits no operation at all.
C3_NoOperationEmitted ==
    (pc = "done" /\ \A m \in Models : Local(m) = Desired(m)) => ops = <<>>

\* C3 as amended: reconciling a collection that already equals the desired
\* one emits no insert and no delete, and exactly one update per record, each
\* writing the values already stored, so the store is unchanged at every step.
C3_OnlyNoOpUpdates ==
    /\ (pc # "done" /\ \A m \in Models : committed[m] = Desired(m)) =>
          /\ \A j \in 1..Len(ops) : ops[j].op = "update"
          /\ session = committed
    /\ (pc = "done" /\ \A m \in Models : Local(m) = Desired(m)) =>
          \A m \in Models :
              /\ OpsOf("insert", m) = {}
              /\ OpsOf("delete", m) = {}
              /\ Cardinality(OpsOf("update", m)) = Len(new_records[m])
              /\ \A r \in Desired(m) : \E j \in OpsOf("update", m) : ops[j].id = r.id
              /\ committed[m] = Local(m)

\* C3: a collection of two records was reconciled against itself.
C3_Witness ==
    /\ pc = "done"
    /\ Local("Sensor") = Desired("Sensor")
    /\ Len(new_records["Sensor"]) >= 2
    /\ Len(ops) = Len(new_records["Sensor"])

\* C4: with an empty local collection _sync_record emits |D| inserts, no
\* update and no delete; with an empty desired collection it emits |L|
\* deletes, no insert and no update.
C4_EmptyCollections ==
    pc = "done" =>
        \A m \in Models :
            /\ actual[m] = <<>> =>
                  /\ Cardinality(OpsOf("insert", m)) = Len(new_records[m])
                  /\ OpsOf("update", m) = {}
                  /\ OpsOf("delete", m) = {}
            /\ new_records[m] = <<>> =>
                  /\ Cardinality(OpsOf("delete", m)) = Len(actual[m])
                  /\ OpsOf("update", m) = {}
                  /\ OpsOf("insert", m) = {}

\* C4: an empty local collection received two or more records.
C4_Witness ==
    /\ pc = "done"
    /\ actual["Sensor"] = <<>>
    /\ Len(new_records["Sensor"]) >= 2
    /\ Cardinality(OpsOf("insert", "Sensor")) = Len(new_records["Sensor"])

\* C4's other case: two or more local records met an empty desired collection.
C4_WitnessEmptyDesired ==
    /\ pc = "done"
    /\ new_records["Sensor"] = <<>>
    /\ Len(actual["Sensor"]) >= 2
    /\ Cardinality(OpsOf("delete", "Sensor")) = Len(actual["Sensor"])

\* C5 as claimed: get_first_sensor_data_date returns None for a sensor with
\* no reading and otherwise the minimum timestamp of the sensor's readings,
\* in whatever order they were inserted.
C5_FirstDateIsMinimum ==
    call.fn = "get_first_sensor_data_date" =>
        IF RowsOf(call.sensor_id) = {}
        THEN call.result = PyNone
        ELSE \E j \in RowsOf(call.sensor_id) :
                /\ call.result = << clock_log[j] >>
                /\ \A k \in RowsOf(call.sensor_id) : DtLeq(clock_log[j], clock_log[k])

\* C5, what the code returns: the timestamp of the sensor's reading of lowest
\* id, the first one inserted.
C5_FirstDateIsFirstInserted ==
    call.fn = "get_first_sensor_data_date" =>
        IF RowsOf(call.sensor_id) = {}
        THEN call.result = PyNone
        ELSE \E j \in RowsOf(call.sensor_id) :
                /\ call.result = << clock_log[j] >>
                /\ \A k \in RowsOf(call.sensor_id) : j <= k

\* C8: get_sensor_data_in_time_range(sensor, [t0, t1]) returns exactly the
\* readings of that sensor written at a time t with t0 <= t <= t1, each once
\* and as stored, and no other reading.
C8_RangeIsInclusive ==
    call.fn = "get_sensor_data_in_time_range" =>
        LET rows == call.result
            t0 == call.args[1]
            t1 == call.args[2]
        IN  /\ { rows[j].id : j \in 1..Len(rows) } =
                   { j \in RowsOf(call.sensor_id) :
                        DtLeq(t0, clock_log[j]) /\ DtLeq(clock_log[j], t1) }
            /\ \A j \in 1..Len(rows) : rows[j] = readings[rows[j].id]
            /\ \A j, k \in 1..Len(rows) : rows[j].id = rows[k].id => j = k

\* C8's scenario: a sensor has readings at day 1, 2 and 3 and the query of
\* [day 2, day 2] has returned exactly one reading.
C8_Witness ==
    /\ call.fn = "get_sensor_data_in_time_range"
    /\ call.args = << <<2023, 1, 2, 0, 0, 0>>, <<2023, 1, 2, 0, 0, 0>> >>
    /\ { clock_log[j] : j \in RowsOf(call.sensor_id) } =
           { <<2023, 1, d, 0, 0, 0>> : d \in 1..3 }
    /\ Cardinality(RowsOf(call.sensor_id)) = 3
    /\ Len(call.result) = 1

\* C10: get_sensor_data with a `from` text that does not parse raises no
\* error and returns what the same call without `from` returns: every reading
\* of the sensor (that carries the field, when one is asked for), whatever
\* its timestamp.
C10_MalformedFromIsNoFilter ==
    (/\ call.fn = "get_sensor_data"
     /\ call.args[1] # PyNone
     /\ strptime(call.args[1][1]) = <<>>) =>
        LET field == call.args[2]
            key == IF field = <<"time_stamp">> THEN "timestamp" ELSE field[1]
        IN  /\ ~call.result.raised
            /\ call.result =
                   get_sensor_data(readings, call.sensor_id, PyNone, field)
            /\ { call.result.rows[j].id : j \in 1..Len(call.result.rows) } =
                   { j \in RowsOf(call.sensor_id) :
                        field # PyNone => key \in DOMAIN readings[j].data.value }

\* C10: a `from` with a space for the "T" was given for a sensor whose
\* readings a lower bound of day 2 would have cut, and readings came back.
C10_Witness ==
    /\ call.fn = "get_sensor_data"
    /\ call.args[1] = << <<"2023", "-", "01", "-", "02", " ", "00", ":", "00", ":", "00">> >>
    /\ call.args[2] = <<"speed">>
    /\ \E j \in RowsOf(call.sensor_id) : clock_log[j] = <<2023, 1, 1, 0, 0, 0>>
    /\ Len(call.result.rows) >= 1

\* C6 as claimed: without an encryption key (no key value, or no UserInfo
\* row) sync_all makes no call to a cloud destination and returns normally.
C6_NoKeySkipsSilently ==
    (/\ backup.pc \in {"returned", "raised"}
     /\ (user_info = <<>> \/ ~Truthy(user_info[1].encrypt_key))) =>
        /\ backup.pc = "returned"
        /\ store_calls = <<>>

\* C6, what the code does: with a UserInfo row whose key is None or empty
\* sync_all returns with no call made; with no row it raises, no call made.
C6_NoKeyValueSkipsNoRowRaises ==
    (/\ backup.pc \in {"returned", "raised"}
     /\ (user_info = <<>> \/ ~Truthy(user_info[1].encrypt_key))) =>
        /\ store_calls = <<>>
        /\ backup.pc = (IF user_info = <<>> THEN "raised" ELSE "returned")

\* the sensors a backup run is to export: those of a stored controller
SensorsToExport ==
    { r.id : r \in { x \in session["Sensor"] :
                        \E c \in session["Controller"] : c.id = x.controller_id } }

\* C7 as claimed: when a backup run has ended because the prepare or the
\* sync call of one sensor raised, store.sync was still attempted for every
\* other sensor of every controller.
C7_OtherSensorsStillAttempted ==
    (/\ backup.pc = "raised"
     /\ store_calls # <<>>
     /\ store_calls[Len(store_calls)].fn \in {"prepare_for_sync_sensor", "sync"}) =>
        \A x \in SensorsToExport \ { store_calls[Len(store_calls)].id } :
            \E j \in 1..Len(store_calls) :
                store_calls[j].fn = "sync" /\ store_calls[j].id = x

\* C7, what the code does: a run that returns has attempted every sensor; a
\* run that raises has made its last call to the destination when it raised.
C7_OnlyACompleteRunAttemptsAll ==
    (backup.pc = "returned" /\ store_calls # <<>>) =>
        \A x \in SensorsToExport :
            \E j \in 1..Len(store_calls) :
                store_calls[j].fn = "sync" /\ store_calls[j].id = x

\* C9: no step of sync_all changes the readings or the topology records,
\* whether the run returns early, completes or raises.
C9_BackupOnlyReads ==
    [][backup' # backup => UNCHANGED <<readings, clock_log, session, committed>>]_vars

\* C9: a run has returned after store.sync read a stored reading.
C9_Witness ==
    /\ backup.pc = "returned"
    /\ readings # <<>>
    /\ \E j \in 1..Len(store_calls) :
          store_calls[j].fn = "sync" /\ store_calls[j].read # <<>>

\* the session calls of the three ways through f
CommittedCalls == << "db_session", "commit", "remove" >>
RolledBackCalls == << "db_session", "rollback", "remove" >>
CommitFailedCalls == << "db_session", "commit", "rollback", "remove" >>

IsPrefix(s, t) == Len(s) <= Len(t) /\ \A j \in 1..Len(s) : s[j] = t[j]

\* C11: in every call of a handler wrapped by provide_db_session the session
\* is opened before the handler runs; when the handler returns and the commit
\* succeeds, commit is called and rollback is not; when the handler or the
\* commit raises, rollback is called and that same exception reaches the
\* caller; remove() is called exactly once, last, after the commit or the
\* rollback; the call never ends with neither a commit nor a rollback.
C11_CommitOrRollbackThenRemove ==
    /\ \/ IsPrefix(session_calls, CommittedCalls)
       \/ IsPrefix(session_calls, RolledBackCalls)
       \/ IsPrefix(session_calls, CommitFailedCalls)
    /\ request.pc \notin {"idle", "call"} => session_calls # <<>>
    /\ (request.result # <<>> /\ request.pc \notin {"commit"})
          => session_calls[2] = "commit"
    /\ request.pc = "returned" =>
          /\ request.result # <<>>
          /\ request.thrown = ""
          /\ session_calls = CommittedCalls
    /\ request.pc = "raised" =>
          /\ request.thrown # ""
          /\ request.raised = request.thrown
          /\ session_calls = IF request.thrown = "CommitError"
                             THEN CommitFailedCalls ELSE RolledBackCalls

\* C11's case: the handler has returned, the commit itself has raised, and
\* the caller has the commit's exception after the rollback and the remove.
C11_Witness ==
    /\ request.pc = "raised"
    /\ request.result # <<>>
    /\ request.raised = "CommitError"
    /\ session_calls = CommitFailedCalls

\* C11's other exits: a handler that raised, and a committed call
C11_WitnessHandlerRaised ==
    /\ request.pc = "raised"
    /\ request.result = <<>>
    /\ request.raised = "NoResultFound"
    /\ session_calls = RolledBackCalls

C11_WitnessCommitted ==
    /\ request.pc = "returned"
    /\ session_calls = CommittedCalls

\* sync_all is running, or has ended and patch has not yet seen its outcome
BackupStarted == backup.pc # "idle"

\* C12: in UserTokens.patch the update and the backup run are in one session
\* transaction, in that order. While the backup runs the session is open and
\* uncommitted, the update has been applied to it, and the tokens the backup
\* was handed are the updated ones; when the backup has raised, the calls on
\* the session are a rollback and no commit; and the committed tokens change
\* only in a step taken after the backup has returned normally.
C12_UpdateThenBackupInOneTransaction ==
    /\ [](BackupStarted =>
            /\ request.handler = "UserTokens.patch"
            /\ request.pc = "sync_all"
            /\ session_calls = << "db_session" >>
            /\ session_tokens = << request.request_obj[1] >>
            /\ user_tokens = session_tokens[1])
    /\ [](request.sync_all = "raised" =>
            /\ IsPrefix(session_calls, RolledBackCalls)
            /\ request.pc = "raised" => session_calls = RolledBackCalls)
    /\ [][committed_tokens' # committed_tokens =>
            /\ request.sync_all = "returned"
            /\ committed_tokens' = << request.request_obj[1] >>]_vars

\* C12's case: the backup has made calls to the destination with the new
\* token and then raised; the request has ended in a rollback, and the
\* committed tokens are still the ones from before the update.
C12_Witness ==
    /\ request.pc = "raised"
    /\ request.sync_all = "raised"
    /\ Len(store_calls) > 1
    /\ user_tokens.yandex_disk = "new"
    /\ session_calls = RolledBackCalls
    /\ committed_tokens = << [yandex_disk |-> "token"] >>

\* C12's other exit: the backup has returned and the update is committed
C12_WitnessCommitted ==
    /\ request.pc = "returned"
    /\ request.sync_all = "returned"
    /\ Len(store_calls) > 1
    /\ committed_tokens = << [yandex_disk |-> "new"] >>

====
